---- MODULE Spec2Model ----
(***************************************************************************)
(* compute_flops_mxm: the gigaFLOPS calculator of utils/compute_flops_mxm.py *)
(* as a state machine.  One invocation walks the source lines 23, 24, 15,  *)
(* 16, 17, 18, 19, 20; every line is one action.  The arithmetic is the    *)
(* binary64 arithmetic Python's float performs (round to nearest, ties to  *)
(* even, overflow, underflow), carried out on arbitrary-precision naturals *)
(* because the rounding of the intermediate results decides what is        *)
(* printed.                                                                *)
(***************************************************************************)
EXTENDS Integers, Sequences, FiniteSets, TLC

(***************************************************************************)
(* Arbitrary-precision naturals: little-endian sequences of limbs in       *)
(* 0..Base-1 without high zero limbs; << >> is zero.                       *)
(***************************************************************************)
LimbBits == 7 + 7
Base == 2 ^ LimbBits

\* y, once x is known: TLC evaluates the arguments of an operator on demand,
\* and an argument first needed deep inside a recursion is evaluated on top
\* of it
After(x, y) == CASE x = x -> y

Limb(a, i) == IF i >= 1 /\ i <= Len(a) THEN a[i] ELSE 0

Max(x, y) == IF x >= y THEN x ELSE y
Min(x, y) == IF x <= y THEN x ELSE y

\* the greatest element of a non-empty set of integers
MaxOf(S) == CHOOSE i \in S : \A j \in S : j <= i

NonZero(a) == {i \in 1..Len(a) : a[i] # 0}

\* the limbs of a without its high zero limbs
BNorm(a) == IF NonZero(a) = {} THEN << >> ELSE SubSeq(a, 1, MaxOf(NonZero(a)))

RECURSIVE BFromInt(_)
BFromInt(n) == IF n = 0 THEN << >> ELSE <<n % Base>> \o BFromInt(n \div Base)

Differ(a, b) == {i \in 1..Max(Len(a), Len(b)) : Limb(a, i) # Limb(b, i)}

BCmpAt(a, b, i) == IF Limb(a, i) < Limb(b, i) THEN -1 ELSE 1

\* -1, 0, 1 as a < b, a = b, a > b: decided by the highest limb that differs
BCmp(a, b) ==
    After(<<a, b>>,
          IF Differ(a, b) = {} THEN 0 ELSE BCmpAt(a, b, MaxOf(Differ(a, b))))

\* the carry into limb i of a + b: some lower limb generates one and every
\* limb between passes it on
Carry(a, b, i) ==
    IF \E j \in 1..(i - 1) :
          /\ Limb(a, j) + Limb(b, j) >= Base
          /\ \A m \in (j + 1)..(i - 1) : Limb(a, m) + Limb(b, m) = Base - 1
    THEN 1 ELSE 0

BAdd(a, b) ==
    IF a = << >> THEN BNorm(b)
    ELSE IF b = << >> THEN BNorm(a)
    ELSE BNorm([i \in 1..(Max(Len(a), Len(b)) + 1) |->
              (Limb(a, i) + Limb(b, i) + Carry(a, b, i)) % Base])

\* the borrow from limb i of a - b
Borrow(a, b, i) ==
    IF \E j \in 1..(i - 1) :
          /\ Limb(a, j) < Limb(b, j)
          /\ \A m \in (j + 1)..(i - 1) : Limb(a, m) = Limb(b, m)
    THEN 1 ELSE 0

\* a - b for a >= b
BSub(a, b) ==
    IF b = << >> THEN a
    ELSE BNorm([i \in 1..Len(a) |->
              (Limb(a, i) - Limb(b, i) - Borrow(a, b, i) + Base) % Base])

\* a * k for 0 <= k <= Base: the low halves of the limb products plus the
\* high halves one limb up
BMulSmall(a, k) ==
    IF k = 0 \/ a = << >> THEN << >>
    ELSE BAdd([i \in 1..Len(a) |-> (a[i] * k) % Base],
         [i \in 1..(Len(a) + 1) |-> IF i = 1 THEN 0 ELSE (a[i - 1] * k) \div Base])

Zeros(n) == [i \in 1..n |-> 0]

RECURSIVE BMulRange(_, _, _, _)
\* a times the limbs lo..hi of b (taken as a number of their own)
BMulRange(a, b, lo, hi) ==
    IF lo = hi THEN BMulSmall(a, b[lo])
    ELSE BAdd(BMulRange(a, b, lo, (lo + hi) \div 2),
              Zeros((lo + hi) \div 2 + 1 - lo)
                  \o BMulRange(a, b, (lo + hi) \div 2 + 1, hi))

BMul(a, b) ==
    IF a = << >> \/ b = << >> THEN << >>
    ELSE IF Len(a) < Len(b) THEN BMulRange(b, a, 1, Len(a))
    ELSE BMulRange(a, b, 1, Len(b))

BSquare(a) == BMul(a, a)

\* the number of bits of an integer 0 <= n < 2^31
IntBitLen(n) == Cardinality({k \in 0..30 : 2 ^ k <= n})

BBitLen(a) == IF a = << >> THEN 0
              ELSE (Len(a) - 1) * LimbBits + IntBitLen(a[Len(a)])

\* a * 2^s
BShl(a, s) ==
    IF a = << >> THEN << >>
    ELSE Zeros(s \div LimbBits) \o BMulSmall(a, 2 ^ (s % LimbBits))

\* limb i of a with the r bits below it dropped and the low r bits of the
\* limb above it on top
ShrLimb(a, i, r) ==
    Limb(a, i) \div (2 ^ r) + (Limb(a, i + 1) % (2 ^ r)) * 2 ^ (LimbBits - r)

\* floor(a / 2^s)
BShr(a, s) ==
    IF a = << >> THEN << >>
    ELSE BNorm([i \in 1..(Len(a) - s \div LimbBits) |->
              ShrLimb(a, i + s \div LimbBits, s % LimbBits)])

\* bit i (0 = least significant) of a
BBit(a, i) == (Limb(a, i \div LimbBits + 1) \div (2 ^ (i % LimbBits))) % 2

\* a mod 2^s = 0
BLowZero(a, s) == a = BShl(BShr(a, s), s)

RECURSIVE BRemFrom(_, _, _)
\* the number made of the limbs i and up of a, mod k
BRemFrom(a, k, i) ==
    IF i > Len(a) THEN 0 ELSE (BRemFrom(a, k, i + 1) * Base + a[i]) % k

\* quotient and remainder (an integer) of a by k, 0 < k < Base
BDivSmall(a, k) ==
    [q |-> BNorm([i \in 1..Len(a) |-> (BRemFrom(a, k, i + 1) * Base + a[i]) \div k]),
     r |-> BRemFrom(a, k, 1)]

RECURSIVE BQuotDigit(_, _, _, _)
\* the largest k in lo..hi with k * b <= r, given lo * b <= r (bisection)
BQuotDigit(r, b, lo, hi) ==
    IF lo >= hi THEN lo
    ELSE IF BCmp(BMulSmall(b, (lo + hi + 1) \div 2), r) <= 0
    THEN BQuotDigit(r, b, (lo + hi + 1) \div 2, hi)
    ELSE BQuotDigit(r, b, lo, (lo + hi + 1) \div 2 - 1)

\* the two limbs of cur that stand over the top limb of b, as an integer
TopOver(cur, b) == Limb(cur, Len(b) + 1) * Base + Limb(cur, Len(b))

\* the quotient digit of cur < b * Base by b: it lies between the quotients
\* of the top limbs with b's top limb rounded up and down
BQuotEst(cur, b) ==
    BQuotDigit(cur, b, TopOver(cur, b) \div (b[Len(b)] + 1),
               Min(Base - 1, TopOver(cur, b) \div b[Len(b)]))

RECURSIVE BDivModFrom(_, _, _, _, _)
\* k is the quotient digit of cur
BDivModDigit(a, b, i, cur, q, k) ==
    BDivModFrom(a, b, i - 1, BSub(cur, BMulSmall(b, k)), <<k>> \o q)

\* rem is the remainder and q the quotient of the limbs above limb i of a
BDivModFrom(a, b, i, rem, q) ==
    After(<<rem, q>>,
          IF i = 0 THEN [q |-> q, r |-> rem]
          ELSE BDivModDigit(a, b, i, BNorm(<<a[i]>> \o rem), q,
                            BQuotEst(BNorm(<<a[i]>> \o rem), b)))

\* the shift that sets the top bit of b's top limb
NormShift(b) == LimbBits - IntBitLen(b[Len(b)])

\* the quotient without high zero limbs, the remainder scaled back
Unshift(qr, s) == [q |-> BNorm(qr.q), r |-> BShr(qr.r, s)]

\* long division, one limb at a time, of a by b with the top bit of b's
\* top limb set and Len(a) >= Len(b); both were scaled by 2^s
BDivModNorm(a, b, s) ==
    Unshift(BDivModFrom(a, b, Len(a) - Len(b) + 1,
                        BNorm(SubSeq(a, Len(a) - Len(b) + 2, Len(a))), << >>), s)

\* quotient and remainder of a by b > 0
BDivMod(a, b) ==
    IF b = <<1>> THEN [q |-> a, r |-> << >>]
    ELSE IF BCmp(a, b) < 0 THEN [q |-> << >>, r |-> a]
    ELSE BDivModNorm(BShl(a, NormShift(b)), BShl(b, NormShift(b)), NormShift(b))

\* a quotient q with remainder r of a division by b is rounded up
BRoundsUp(qr, b) ==
    \/ BCmp(BAdd(qr.r, qr.r), b) > 0
    \/ BCmp(BAdd(qr.r, qr.r), b) = 0 /\ BBit(qr.q, 0) = 1

BRounded(qr, up) ==
    [n |-> IF up THEN BAdd(qr.q, <<1>>) ELSE qr.q, up |-> up, exact |-> qr.r = << >>]

BDivRoundOf(qr, b) == After(qr, BRounded(qr, BRoundsUp(qr, b)))

\* the integer nearest to a / b, ties to even; up tells which way it went
BDivRound(a, b) == BDivRoundOf(BDivMod(a, b), b)

RECURSIVE BPow5(_)
\* 5^n, by squaring; 10^n is 5^n * 2^n
BPow5(n) ==
    IF n = 0 THEN <<1>>
    ELSE IF n % 2 = 1 THEN BMulSmall(BPow5(n - 1), 5)
    ELSE BSquare(BPow5(n \div 2))

(***************************************************************************)
(* Python float: IEEE 754 binary64.  A value is a record: cls "fin" with   *)
(* magnitude m * 2^e (m a natural below 2^MantBits, full width unless      *)
(* e = MinExp; m = << >>, e = 0 for zero), "inf", "nan"; cls "none" is     *)
(* Python's None and "unset" a local that is not assigned yet.             *)
(***************************************************************************)
MantBits == 53
MinExp == 0 - 1074
MaxExp == 971

Val(c, neg, m, e) == [cls |-> c, neg |-> neg, m |-> m, e |-> e]
Zero(neg) == Val("fin", neg, << >>, 0)
Inf(neg) == Val("inf", neg, << >>, 0)
NaN == Val("nan", FALSE, << >>, 0)
None == Val("none", FALSE, << >>, 0)
Unset == Val("unset", FALSE, << >>, 0)

IsFloat(v) == v.cls \in {"fin", "inf", "nan"}
IsZero(v) == v.cls = "fin" /\ v.m = << >>

\* the mantissa m1 (rounded, possibly one bit too wide) at exponent e
RoundQPack(neg, m1, e) ==
    IF m1 = << >> THEN Zero(neg)
    ELSE IF BBitLen(m1) > MantBits
         THEN (IF e + 1 > MaxExp THEN Inf(neg) ELSE Val("fin", neg, BShr(m1, 1), e + 1))
    ELSE IF e > MaxExp THEN Inf(neg)
    ELSE Val("fin", neg, m1, e)

\* dropping the low d bits of qr.q (and the remainder) rounds m up
RoundQUp(qr, d, m) ==
    /\ BBit(qr.q, d - 1) = 1
    /\ \/ ~BLowZero(qr.q, d - 1)
       \/ qr.r # << >>
       \/ BBit(m, 0) = 1

RoundQInc(qr, d, m) == IF RoundQUp(qr, d, m) THEN BAdd(m, <<1>>) ELSE m

\* (qr.q + a fraction) * 2^y at exponent e >= y
RoundQDrop(neg, qr, y, e) ==
    RoundQPack(neg, RoundQInc(qr, e - y, BShr(qr.q, e - y)), e)

RoundQFrom(neg, qr, y) ==
    After(qr, RoundQDrop(neg, qr, y, Max(y + BBitLen(qr.q) - MantBits, MinExp)))

\* the shift that gives the quotient of N by D at least MantBits + 2 bits
RoundQShift(N, D) == MantBits + 3 - BBitLen(N) + BBitLen(D)

RoundQQuot(N, D, s) ==
    IF s >= 0 THEN BDivMod(BShl(N, s), D) ELSE BDivMod(N, BShl(D, 0 - s))

\* the binary64 nearest to (N / D) * 2^x, ties to even; N, D naturals, D > 0
RoundQ(neg, N, D, x) ==
    IF N = << >> THEN Zero(neg)
    ELSE RoundQFrom(neg, RoundQQuot(N, D, RoundQShift(N, D)), x - RoundQShift(N, D))

\* the outcome of an expression: a value, or the exception it raises
Ok(v) == [err |-> "", op |-> "", v |-> v]
Raise(name, op) == [err |-> name, op |-> op, v |-> Unset]

\* a * b on floats (float_mul): no exception, overflow gives inf
FloatMul(a, b) ==
    IF a.cls = "nan" \/ b.cls = "nan" THEN NaN
    ELSE IF a.cls = "inf" \/ b.cls = "inf"
         THEN (IF IsZero(a) \/ IsZero(b) THEN NaN ELSE Inf(a.neg # b.neg))
    ELSE RoundQ(a.neg # b.neg, BMul(a.m, b.m), <<1>>, a.e + b.e)

\* a / b as IEEE 754 has it: a zero divisor gives an infinity or a NaN
FloatDivIEEE(a, b) ==
    IF a.cls = "nan" \/ b.cls = "nan" THEN Ok(NaN)
    ELSE IF IsZero(b) THEN (IF IsZero(a) THEN Ok(NaN) ELSE Ok(Inf(a.neg # b.neg)))
    ELSE IF a.cls = "inf"
         THEN (IF b.cls = "inf" THEN Ok(NaN) ELSE Ok(Inf(a.neg # b.neg)))
    ELSE IF b.cls = "inf" THEN Ok(Zero(a.neg # b.neg))
    ELSE Ok(RoundQ(a.neg # b.neg, a.m, b.m, a.e - b.e))

\* a / b on floats (float_div): a zero divisor raises, overflow gives inf
FloatDiv(a, b) ==
    IF IsZero(b) THEN Raise("ZeroDivisionError", "/")
    ELSE IF a.cls = "nan" \/ b.cls = "nan" THEN Ok(NaN)
    ELSE IF a.cls = "inf"
         THEN (IF b.cls = "inf" THEN Ok(NaN) ELSE Ok(Inf(a.neg # b.neg)))
    ELSE IF b.cls = "inf" THEN Ok(Zero(a.neg # b.neg))
    ELSE Ok(RoundQ(a.neg # b.neg, a.m, b.m, a.e - b.e))

\* a finite result that overflowed: errno is ERANGE
RangeChecked(r) == IF r.cls = "inf" THEN Raise("OverflowError", "**") ELSE Ok(r)

\* a ** 3 on a float (float_pow): an overflowing result raises
FloatCube(a) ==
    IF a.cls \in {"nan", "inf"} THEN Ok(a)
    ELSE RangeChecked(RoundQ(a.neg, BMul(a.m, BMul(a.m, a.m)), <<1>>, 3 * a.e))

\* the float of a small integer literal of the source (2, 3)
FloatOfInt(n) == RoundQ(n < 0, BFromInt(IF n < 0 THEN 0 - n ELSE n), <<1>>, 0)

(***************************************************************************)
(* Text.  A string the program reads or writes is a sequence of one-       *)
(* character strings, so that parsing and formatting are computed.         *)
(***************************************************************************)
DigitChars == <<"0", "1", "2", "3", "4", "5", "6", "7", "8", "9">>

IsDigit(c) == \E i \in 1..Len(DigitChars) : DigitChars[i] = c
DigitVal(c) == (CHOOSE i \in 1..Len(DigitChars) : DigitChars[i] = c) - 1

RECURSIVE ScanDigits(_, _)
\* the index after the run of digits of s that starts at i
ScanDigits(s, i) == IF i <= Len(s) /\ IsDigit(s[i]) THEN ScanDigits(s, i + 1) ELSE i

\* 10 * high + d
BAppendDigit(high, d) ==
    IF high = << >> THEN BFromInt(d) ELSE BAdd(BMulSmall(high, 10), BFromInt(d))

RECURSIVE BigOfDigits(_, _)
\* the natural written by the first n characters of the digit string ds
BigOfDigits(ds, n) ==
    IF n = 0 THEN << >>
    ELSE BAppendDigit(BigOfDigits(ds, n - 1), DigitVal(ds[n]))

RECURSIVE IntOfDigits(_, _)
IntOfDigits(ds, n) ==
    IF n = 0 THEN 0 ELSE 10 * IntOfDigits(ds, n - 1) + DigitVal(ds[n])

Negated(neg, n) == IF neg THEN 0 - n ELSE n

\* the digits written scaled by 10^p; the text must end where the scan did
ParseFinish(s, neg, digits, p, end, wellFormed) ==
    IF digits = << >> \/ ~wellFormed \/ end # Len(s) + 1
    THEN Raise("ValueError", "float")
    ELSE IF p >= 0
    THEN Ok(RoundQ(neg, BMul(BigOfDigits(digits, Len(digits)), BPow5(p)), <<1>>, p))
    ELSE Ok(RoundQ(neg, BigOfDigits(digits, Len(digits)), BPow5(0 - p), p))

\* the exponent digits are s[i4 .. i5 - 1]
ParseExpDigits(s, neg, digits, nFrac, eNeg, i4, i5) ==
    ParseFinish(s, neg, digits,
                Negated(eNeg, IntOfDigits(SubSeq(s, i4, i5 - 1), i5 - i4)) - nFrac,
                i5, i5 > i4)

ParseExpSign(s, neg, digits, nFrac, i4) ==
    IF i4 <= Len(s) /\ s[i4] \in {"+", "-"}
    THEN ParseExpDigits(s, neg, digits, nFrac, s[i4] = "-", i4 + 1, ScanDigits(s, i4 + 1))
    ELSE ParseExpDigits(s, neg, digits, nFrac, FALSE, i4, ScanDigits(s, i4))

\* the mantissa ended before index i3
ParseExp(s, neg, digits, nFrac, i3) ==
    IF i3 <= Len(s) /\ s[i3] \in {"e", "E"}
    THEN ParseExpSign(s, neg, digits, nFrac, i3 + 1)
    ELSE ParseFinish(s, neg, digits, 0 - nFrac, i3, TRUE)

\* the fraction digits are s[i2 + 1 .. i3 - 1]
ParseFrac(s, neg, int, i2, i3) ==
    ParseExp(s, neg, int \o SubSeq(s, i2 + 1, i3 - 1), i3 - i2 - 1, i3)

\* the integer digits are s[i1 .. i2 - 1]
ParseInt(s, neg, i1, i2) ==
    IF i2 <= Len(s) /\ s[i2] = "."
    THEN ParseFrac(s, neg, SubSeq(s, i1, i2 - 1), i2, ScanDigits(s, i2 + 1))
    ELSE ParseExp(s, neg, SubSeq(s, i1, i2 - 1), 0, i2)

ParseUnsigned(s, neg, i1) ==
    IF SubSeq(s, i1, Len(s)) = <<"i", "n", "f">> THEN Ok(Inf(neg))
    ELSE IF SubSeq(s, i1, Len(s)) = <<"n", "a", "n">> THEN Ok(NaN)
    ELSE ParseInt(s, neg, i1, ScanDigits(s, i1))

\* float(s) as argparse calls it for type=float: [sign] digits [. digits]
\* [e [sign] digits], inf, nan; anything else raises ValueError
ParseFloat(s) ==
    IF Len(s) >= 1 /\ s[1] \in {"+", "-"} THEN ParseUnsigned(s, s[1] = "-", 2)
    ELSE ParseUnsigned(s, FALSE, 1)

RECURSIVE DigitsOfBig(_)
\* the decimal digits of a natural, most significant first; zero is "0"
DigitsOfQuot(qr) ==
    IF qr.q = << >> THEN <<DigitChars[qr.r + 1]>>
    ELSE DigitsOfBig(qr.q) \o <<DigitChars[qr.r + 1]>>

DigitsOfBig(a) == DigitsOfQuot(BDivSmall(a, 10))

RECURSIVE DigitsOfInt(_)
DigitsOfInt(n) ==
    IF n < 10 THEN <<DigitChars[n + 1]>>
    ELSE DigitsOfInt(n \div 10) \o <<DigitChars[(n % 10) + 1]>>

CharZeros(n) == [i \in 1..n |-> "0"]

\* |v| * 10^j as a fraction [n, d] of naturals, for a finite v
Scaled(v, j) ==
    [n |-> BShl(IF j >= 0 THEN BMul(v.m, BPow5(j)) ELSE v.m, Max(v.e + j, 0)),
     d |-> BShl(IF j >= 0 THEN <<1>> ELSE BPow5(0 - j), Max(0 - (v.e + j), 0))]

\* the float whose magnitude is c / 10^j
Unscaled(neg, c, j) ==
    IF j >= 0 THEN RoundQ(neg, c, BPow5(j), 0 - j)
    ELSE RoundQ(neg, BMul(c, BPow5(0 - j)), <<1>>, 0 - j)

FractionRound(f) == After(f, BDivRound(f.n, f.d))

\* the integer nearest to |v| * 10^j, ties to even
ScaledRound(v, j) == FractionRound(Scaled(v, j))

\* no rounding at all
RoundNone(v) == v

\* round(v, 2) on a float (float.__round__): the decimal with 2 fraction
\* digits nearest to the exact value of v, ties to even, converted back
Round2(v) ==
    IF v.cls # "fin" \/ IsZero(v) THEN v
    ELSE Unscaled(v.neg, ScaledRound(v, 2).n, 2)

\* 17 significant digits tell any two floats apart
ReprMaxDigits == 17

\* floor(k * log10(2)), for |k| below 2000
Log10Pow2(k) == (k * 30103) \div 100000

\* the decimal exponent of |v| is in DecExpLow(v) .. DecExpHigh(v)
DecExpLow(v) == Log10Pow2(BBitLen(v.m) + v.e - 1)
DecExpHigh(v) == Log10Pow2(BBitLen(v.m) + v.e) + 1

\* the neighbour of the nearest integer on the other side of the value
OtherSide(near) == IF near.up THEN BSub(near.n, <<1>>) ELSE BAdd(near.n, <<1>>)

\* the decimal c / 10^j nearest to v that converts back to v, if there is one
ShortestTry(v, j, near) ==
    After(near,
    IF Unscaled(v.neg, near.n, j) = v THEN [ok |-> TRUE, c |-> near.n, j |-> j]
    ELSE IF ~near.exact /\ Unscaled(v.neg, OtherSide(near), j) = v
         THEN [ok |-> TRUE, c |-> OtherSide(near), j |-> j]
    ELSE [ok |-> FALSE, c |-> << >>, j |-> j])

ShortestAt(v, j) == ShortestTry(v, j, ScaledRound(v, j))

\* the shortest decimal c / 10^j that converts back to v: the least j that
\* has one, and of two of a length the one nearer to v
Shortest(v) ==
    ShortestAt(v, CHOOSE j \in (0 - DecExpHigh(v))..(ReprMaxDigits - DecExpLow(v)) :
                      /\ ShortestAt(v, j).ok
                      /\ \A i \in (0 - DecExpHigh(v))..(j - 1) : ~ShortestAt(v, i).ok)

ReprMaxFixed == 16
ReprMinFixed == 0 - 4

SignChars(neg) == IF neg THEN <<"-">> ELSE << >>

\* e+XX / e-XX, at least two exponent digits
ExpChars(ex) ==
    <<"e", IF ex < 0 THEN "-" ELSE "+">>
    \o (IF ex > 0 - 10 /\ ex < 10 THEN <<"0">> ELSE << >>)
    \o DigitsOfInt(IF ex < 0 THEN 0 - ex ELSE ex)

\* the digits ds with the decimal point after the first decpt of them
FormatAt(sign, ds, decpt) ==
    IF decpt <= ReprMinFixed \/ decpt > ReprMaxFixed
    THEN sign \o <<ds[1]>>
         \o (IF Len(ds) > 1 THEN <<".">> \o SubSeq(ds, 2, Len(ds)) ELSE << >>)
         \o ExpChars(decpt - 1)
    ELSE IF decpt <= 0
    THEN sign \o <<"0", ".">> \o CharZeros(0 - decpt) \o ds
    ELSE IF decpt >= Len(ds)
    THEN sign \o ds \o CharZeros(decpt - Len(ds)) \o <<".", "0">>
    ELSE sign \o SubSeq(ds, 1, decpt) \o <<".">> \o SubSeq(ds, decpt + 1, Len(ds))

FormatDigits(neg, ds, j) == After(ds, FormatAt(SignChars(neg), ds, Len(ds) - j))

FormatShortest(neg, sh) == After(sh, FormatDigits(neg, DigitsOfBig(sh.c), sh.j))

\* str(v) of a float: float_repr, the shortest string that converts back
Repr(v) ==
    IF v.cls = "inf" THEN SignChars(v.neg) \o <<"i", "n", "f">>
    ELSE IF v.cls = "nan" THEN <<"n", "a", "n">>
    ELSE IF IsZero(v) THEN SignChars(v.neg) \o <<"0", ".", "0">>
    ELSE FormatShortest(v.neg, Shortest(v))

(***************************************************************************)
(* The program.  argv holds, for each option, the values given for it on   *)
(* the command line (none when the option is omitted).                     *)
(***************************************************************************)
VARIABLES argv, pc, args, matrixSize, nanosecondsSolution,
          numFloatOperationsPerKernel, timeScaleSec, gigaflops,
          stdout, stderr, exitCode, steps, prev

vars == <<argv, pc, args, matrixSize, nanosecondsSolution,
          numFloatOperationsPerKernel, timeScaleSec, gigaflops,
          stdout, stderr, exitCode, steps, prev>>

SizeArgs == { << >>,
              <<<<"a", "b", "c">>>>,
              <<<<"0">>>>,
              <<<<"5">>>>,
              <<<<"1", "1">>>>,
              <<<<"1", "0", "0">>>>,
              <<<<"1", "0", "2", "4">>>>,
              <<<<"-", "3">>>>,
              <<<<"1", "e", "1", "0", "3">>>> }

TimeArgs == { << >>,
              <<<<"a", "b", "c">>>>,
              <<<<"0">>>>,
              <<<<"1", "6">>>>,
              <<<<"8", "0">>>>,
              <<<<"5", "0", "0", "0", "0", "0">>>>,
              <<<<"1", "0", "0", "0", "0", "0", "0">>>>,
              <<<<"-", "2">>>> }

Argvs == [size : SizeArgs, time : TimeArgs]

NoError == [kind |-> "", exc |-> "", op |-> "", line |-> ""]
UsageError == [kind |-> "usage", exc |-> "", op |-> "", line |-> "L23"]
Traceback(r, line) == [kind |-> "traceback", exc |-> r.err, op |-> r.op, line |-> line]

\* add_argument without type=float: a value that is no number is not rejected
OptionUnchecked(given) ==
    IF given = << >> \/ ParseFloat(given[Len(given)]).err # "" THEN Ok(None)
    ELSE ParseFloat(given[Len(given)])

\* add_argument with default=0.0 instead of None
OptionZeroDefault(given) ==
    IF given = << >> THEN Ok(Zero(FALSE)) ELSE ParseFloat(given[Len(given)])

\* one add_argument(..., type=float, default=None): the last value given is
\* converted, an omitted option keeps the default
Option(given) == IF given = << >> THEN Ok(None) ELSE ParseFloat(given[Len(given)])

\* parser.parse_args(): the Namespace, or the parser's error
Namespace(size, time) ==
    [err |-> size.err # "" \/ time.err # "", size |-> size.v, time |-> time.v]

parseArguments(av) == Namespace(Option(av.size), Option(av.time))

\* the float literals of the source
Literal1E9 == ParseFloat(<<"1", "E", "9">>).v
Literal1Em9 == ParseFloat(<<"1", "E", "-", "9">>).v

\* 2 * cube, when the cube was computed
Doubled(cube) == IF cube.err # "" THEN cube ELSE Ok(FloatMul(FloatOfInt(2), cube.v))

\* 2 * matrixSize**2: the square taken for the cube
FloatOpsSquare(size) ==
    IF size.cls = "none" THEN Raise("TypeError", "**")
    ELSE Ok(FloatMul(FloatOfInt(2), FloatMul(size, size)))

\* 2 * matrixSize**3
FloatOps(size) ==
    IF size.cls = "none" THEN Raise("TypeError", "**") ELSE Doubled(FloatCube(size))

\* left / right, when the right operand was computed
Quotient(left, right) == IF right.err # "" THEN right ELSE FloatDiv(left, right.v)

\* (1E-9 * numOps) / (ns / scale)
GigaFlops(numOps, ns, scale) ==
    IF ns.cls = "none" THEN Raise("TypeError", "/")
    ELSE Quotient(FloatMul(Literal1Em9, numOps), FloatDiv(ns, scale))

Label == <<"G", "i", "g", "a", "G", "l", "o", "p", "s", ":", " ">>

\* "GigaGlops: " + str(round(gigaflops, 2))
OutputText(rounded) == After(rounded, Label \o Repr(rounded))

OutputLine(g) == OutputText(Round2(g))

Init ==
    /\ argv \in Argvs
    /\ pc = "L23"
    /\ args = [size |-> Unset, time |-> Unset]
    /\ matrixSize = Unset
    /\ nanosecondsSolution = Unset
    /\ numFloatOperationsPerKernel = Unset
    /\ timeScaleSec = Unset
    /\ gigaflops = Unset
    /\ stdout = << >>
    /\ stderr = NoError
    /\ exitCode = -1
    /\ steps = << >>
    /\ prev = << >>

\* the process ends with an uncaught exception: traceback, exit status 1
Uncaught(r, line) ==
    /\ stderr' = Traceback(r, line)
    /\ exitCode' = 1
    /\ pc' = "exited"

\* line 23: args = parseArguments()
Parsed(ns) ==
    IF ns.err
    THEN /\ stderr' = UsageError
         /\ exitCode' = 2
         /\ pc' = "exited"
         /\ UNCHANGED args
    ELSE /\ args' = [size |-> ns.size, time |-> ns.time]
         /\ pc' = "L24"
         /\ UNCHANGED <<stderr, exitCode>>

L23 ==
    /\ pc = "L23"
    /\ steps' = Append(steps, "L23")
    /\ Parsed(parseArguments(argv))
    /\ UNCHANGED <<argv, matrixSize, nanosecondsSolution, numFloatOperationsPerKernel,
                   timeScaleSec, gigaflops, stdout, prev>>

\* line 24: computeFlops(args) is entered
L24 ==
    /\ pc = "L24"
    /\ steps' = Append(steps, "L24")
    /\ pc' = "L15"
    /\ UNCHANGED <<argv, args, matrixSize, nanosecondsSolution,
                   numFloatOperationsPerKernel, timeScaleSec, gigaflops,
                   stdout, stderr, exitCode, prev>>

\* line 15 reading the wrong field: matrixSize = args.time
L15FromTime ==
    /\ pc = "L15"
    /\ steps' = Append(steps, "L15")
    /\ matrixSize' = args.time
    /\ pc' = "L16"
    /\ UNCHANGED <<argv, args, nanosecondsSolution, numFloatOperationsPerKernel,
                   timeScaleSec, gigaflops, stdout, stderr, exitCode, prev>>

\* line 15: matrixSize = args.size
L15 ==
    /\ pc = "L15"
    /\ steps' = Append(steps, "L15")
    /\ matrixSize' = args.size
    /\ pc' = "L16"
    /\ UNCHANGED <<argv, args, nanosecondsSolution, numFloatOperationsPerKernel,
                   timeScaleSec, gigaflops, stdout, stderr, exitCode, prev>>

\* line 16 reading the wrong field: nanosecondsSolution = args.size
L16FromSize ==
    /\ pc = "L16"
    /\ steps' = Append(steps, "L16")
    /\ nanosecondsSolution' = args.size
    /\ pc' = "L17"
    /\ UNCHANGED <<argv, args, matrixSize, numFloatOperationsPerKernel,
                   timeScaleSec, gigaflops, stdout, stderr, exitCode, prev>>

\* line 16: nanosecondsSolution = args.time
L16 ==
    /\ pc = "L16"
    /\ steps' = Append(steps, "L16")
    /\ nanosecondsSolution' = args.time
    /\ pc' = "L17"
    /\ UNCHANGED <<argv, args, matrixSize, numFloatOperationsPerKernel,
                   timeScaleSec, gigaflops, stdout, stderr, exitCode, prev>>

Assigned17(r) ==
    IF r.err # ""
    THEN Uncaught(r, "L17") /\ UNCHANGED numFloatOperationsPerKernel
    ELSE /\ numFloatOperationsPerKernel' = r.v
         /\ pc' = "L18"
         /\ UNCHANGED <<stderr, exitCode>>

\* line 17: numFloatOperationsPerKernel = 2 * matrixSize**3
L17 ==
    /\ pc = "L17"
    /\ steps' = Append(steps, "L17")
    /\ Assigned17(FloatOps(matrixSize))
    /\ UNCHANGED <<argv, args, matrixSize, nanosecondsSolution, timeScaleSec,
                   gigaflops, stdout, prev>>

\* line 18: timeScaleSec = 1E9
L18 ==
    /\ pc = "L18"
    /\ steps' = Append(steps, "L18")
    /\ timeScaleSec' = Literal1E9
    /\ pc' = "L19"
    /\ UNCHANGED <<argv, args, matrixSize, nanosecondsSolution,
                   numFloatOperationsPerKernel, gigaflops, stdout, stderr,
                   exitCode, prev>>

Assigned19(r) ==
    IF r.err # ""
    THEN Uncaught(r, "L19") /\ UNCHANGED gigaflops
    ELSE /\ gigaflops' = r.v
         /\ pc' = "L20"
         /\ UNCHANGED <<stderr, exitCode>>

\* line 19: gigaflops = (1E-9 * numFloatOperationsPerKernel)
\*                      / (nanosecondsSolution / timeScaleSec)
L19 ==
    /\ pc = "L19"
    /\ steps' = Append(steps, "L19")
    /\ Assigned19(GigaFlops(numFloatOperationsPerKernel, nanosecondsSolution, timeScaleSec))
    /\ UNCHANGED <<argv, args, matrixSize, nanosecondsSolution,
                   numFloatOperationsPerKernel, timeScaleSec, stdout, prev>>

\* line 20 with the print statement there twice
L20Twice ==
    /\ pc = "L20"
    /\ steps' = Append(steps, "L20")
    /\ stdout' = stdout \o <<OutputLine(gigaflops), OutputLine(gigaflops)>>
    /\ exitCode' = 0
    /\ pc' = "exited"
    /\ UNCHANGED <<argv, args, matrixSize, nanosecondsSolution,
                   numFloatOperationsPerKernel, timeScaleSec, gigaflops,
                   stderr, prev>>

\* line 20: print("GigaGlops: " + str(round(gigaflops, 2))); computeFlops
\* returns, the script ends and the process exits with status 0
L20 ==
    /\ pc = "L20"
    /\ steps' = Append(steps, "L20")
    /\ stdout' = Append(stdout, OutputLine(gigaflops))
    /\ exitCode' = 0
    /\ pc' = "exited"
    /\ UNCHANGED <<argv, args, matrixSize, nanosecondsSolution,
                   numFloatOperationsPerKernel, timeScaleSec, gigaflops,
                   stderr, prev>>

computeFlops == L15 \/ L16 \/ L17 \/ L18 \/ L19 \/ L20

Next == L23 \/ L24 \/ computeFlops

Spec == Init /\ [][Next]_vars

\* what an invocation leaves behind for whoever ran it
Outcome == [argv |-> argv, stdout |-> stdout, stderr |-> stderr, exitCode |-> exitCode]

\* the program is run again, as a new process that starts from nothing, with
\* one option of the command line changed (or none)
Rerun ==
    /\ pc = "exited"
    /\ prev' = <<Outcome>>
    /\ argv' \in {a \in Argvs : a.size = argv.size \/ a.time = argv.time}
    /\ pc' = "L23"
    /\ args' = [size |-> Unset, time |-> Unset]
    /\ matrixSize' = Unset
    /\ nanosecondsSolution' = Unset
    /\ numFloatOperationsPerKernel' = Unset
    /\ timeScaleSec' = Unset
    /\ gigaflops' = Unset
    /\ stdout' = << >>
    /\ stderr' = NoError
    /\ exitCode' = -1
    /\ steps' = << >>

NextPair == Next \/ Rerun

SpecPair == Init /\ [][NextPair]_vars

(***************************************************************************)
(* Properties.  What was given on the command line and what was printed    *)
(* are read as exact numbers: a float m * 2^e as the fraction it is, a     *)
(* printed decimal as its number of hundredths.                            *)
(***************************************************************************)
Given(opt) == opt # << >>
Token(opt) == opt[Len(opt)]
Parseable(opt) == Given(opt) /\ ParseFloat(Token(opt)).err = ""
Unparseable(opt) == Given(opt) /\ ParseFloat(Token(opt)).err # ""
ValueOf(opt) == ParseFloat(Token(opt)).v

Finite(v) == v.cls = "fin"
NonZero64(v) == v.cls = "fin" /\ v.m # << >>
Positive(v) == NonZero64(v) /\ ~v.neg

\* |v| is in [2^(MagExp(v) - 1), 2^MagExp(v))
MagExp(v) == BBitLen(v.m) + v.e

\* the cube of v is certainly below 2^1023: 2 * v^3 is a float
CubeFits(v) == Finite(v) /\ (IsZero(v) \/ 3 * MagExp(v) <= 1023)

\* size^3 in [2^-900, 2^1000) or zero, |time| in [2^-900, 2^900), and
\* |2 * size^3 / time| below 2^40: no step overflows or loses precision
InDomain(size, time) ==
    /\ Finite(size) /\ NonZero64(time)
    /\ MagExp(time) - 1 >= 0 - 900 /\ MagExp(time) <= 900
    /\ \/ IsZero(size)
       \/ /\ 3 * (MagExp(size) - 1) >= 0 - 900
          /\ 3 * MagExp(size) <= 1000
          /\ 1 + 3 * MagExp(size) - (MagExp(time) - 1) <= 40

ArgsInDomain(av) ==
    /\ Parseable(av.size) /\ Parseable(av.time)
    /\ InDomain(ValueOf(av.size), ValueOf(av.time))

\* the text after the label of the line printed
HasLabel(line) == Len(line) > Len(Label) /\ SubSeq(line, 1, Len(Label)) = Label
Text(line) == SubSeq(line, Len(Label) + 1, Len(line))
TextNeg(t) == t[1] = "-"
Unsigned(t) == IF t[1] = "-" THEN SubSeq(t, 2, Len(t)) ELSE t
Points(u) == {i \in 1..Len(u) : u[i] = "."}
PointAt(u) == CHOOSE i \in Points(u) : TRUE

\* digits, one point, digits
IsFixed(u) ==
    /\ Cardinality(Points(u)) = 1
    /\ \A i \in 1..Len(u) : u[i] = "." \/ IsDigit(u[i])
    /\ PointAt(u) > 1 /\ PointAt(u) < Len(u)

FracDigits(u) == Len(u) - PointAt(u)

HundredthDigits(u) ==
    SubSeq(u, 1, PointAt(u) - 1) \o SubSeq(u, PointAt(u) + 1, Len(u))
        \o (IF FracDigits(u) = 1 THEN <<"0">> ELSE << >>)

\* the number of hundredths a decimal with one or two fraction digits is
Hundredths(u) == BigOfDigits(HundredthDigits(u), Len(HundredthDigits(u)))

\* a run that printed one line with a decimal of at most two fraction digits
PrintedDecimal(out, code) ==
    /\ code = 0 /\ Len(out) = 1 /\ HasLabel(out[1])
    /\ IsFixed(Unsigned(Text(out[1])))
    /\ FracDigits(Unsigned(Text(out[1]))) <= 2

PrintedNeg(out) == TextNeg(Text(out[1]))
PrintedHundredths(out) == Hundredths(Unsigned(Text(out[1])))

\* |x - y| of signed magnitudes
Dist(negx, x, negy, y) ==
    IF negx # negy THEN BAdd(x, y)
    ELSE IF BCmp(x, y) >= 0 THEN BSub(x, y) ELSE BSub(y, x)

\* |u| and |v| as integers in units of one power of two
OnScale(v, u) == BShl(v.m, v.e - Min(v.e, u.e))

Cube(a) == BMul(a, BMul(a, a))

\* 200 * |size|^3 and |time| as integers in units of one power of two
CubeScaled(size, time) ==
    BShl(BMulSmall(Cube(size.m), 200), 3 * size.e - Min(3 * size.e, time.e))
TimeScaled(size, time) == BShl(time.m, time.e - Min(3 * size.e, time.e))

\* h hundredths are less than one hundredth away from 2 * size^3 / time
NearQuotient(h, size, time) ==
    BCmp(Dist(FALSE, BMul(h, TimeScaled(size, time)), FALSE, CubeScaled(size, time)),
         TimeScaled(size, time)) < 0

\* h hundredths are 2 * size^3 / time rounded to hundredths, ties to even
RoundedQuotient(h, size, time) ==
    h = BDivRound(CubeScaled(size, time), TimeScaled(size, time)).n

LineOf(chars) == <<Label \o chars>>

ArgvOf(sizeToken, timeToken) == [size |-> <<sizeToken>>, time |-> <<timeToken>>]

Example1 == ArgvOf(<<"1", "0", "2", "4">>, <<"1", "0", "0", "0", "0", "0", "0">>)
Example2 == ArgvOf(<<"1", "0", "0">>, <<"5", "0", "0", "0", "0", "0">>)
TieExample == ArgvOf(<<"5">>, <<"1", "6">>)

Examples ==
    /\ argv = Example1 => stdout = LineOf(<<"2", "1", "4", "7", ".", "4", "8">>)
    /\ argv = Example2 => stdout = LineOf(<<"4", ".", "0">>)

BothPositive(av) ==
    /\ Parseable(av.size) /\ Parseable(av.time)
    /\ Positive(ValueOf(av.size)) /\ Positive(ValueOf(av.time))

\* C1 as amended: for positive size and timeNs in the domain (size^3 and
\* timeNs in the normal float range, quotient below 2^40) the run prints a
\* finite, non-negative decimal of at most two fraction digits that is less
\* than 0.01 away from 2 * size^3 / timeNs; 1024 and 1000000 print 2147.48,
\* 100 and 500000 print 4.0.
C1_NearQuotient ==
    (pc = "exited" /\ BothPositive(argv) /\ ArgsInDomain(argv))
        => /\ PrintedDecimal(stdout, exitCode)
           /\ ~PrintedNeg(stdout)
           /\ NearQuotient(PrintedHundredths(stdout), ValueOf(argv.size), ValueOf(argv.time))
           /\ Examples

C1_Witness ==
    /\ pc = "exited" /\ argv = TieExample
    /\ stdout = LineOf(<<"1", "5", ".", "6", "3">>)

\* C1 as stated: for all positive size and timeNs the run produces a finite,
\* non-negative value equal to round(2 * size^3 / timeNs, 2).
C1_Original ==
    (pc = "exited" /\ BothPositive(argv))
        => /\ PrintedDecimal(stdout, exitCode)
           /\ ~PrintedNeg(stdout)
           /\ RoundedQuotient(PrintedHundredths(stdout), ValueOf(argv.size), ValueOf(argv.time))
           /\ Examples

RunSteps == <<"L23", "L24", "L15", "L16", "L17", "L18", "L19", "L20">>

\* C2: a successful invocation (exit status 0) had both options given as
\* parseable numbers, ran parse, compute, print in that order, wrote exactly
\* one line "GigaGlops: <value>" and has terminated; no run ever holds a
\* second line.
C2_OneLineInOrder ==
    /\ Len(stdout) <= 1
    /\ pc = "exited" => ~ENABLED Next
    /\ exitCode = 0 => /\ pc = "exited"
                       /\ Parseable(argv.size) /\ Parseable(argv.time)
                       /\ steps = RunSteps
                       /\ Len(stdout) = 1
                       /\ HasLabel(stdout[1])
    /\ Len(stdout) = 1 => exitCode = 0

C2_Witness == exitCode = 0 /\ steps = RunSteps /\ Len(stdout) = 1 /\ HasLabel(stdout[1])

\* C3: when --size or --time has a value that is no number, the run never
\* gets past line 23: it ends there with a usage error and exit status 2,
\* no arithmetic step has run and nothing is printed.
C3_RejectedAtParse ==
    (Unparseable(argv.size) \/ Unparseable(argv.time))
        => /\ pc \in {"L23", "exited"}
           /\ stdout = << >>
           /\ numFloatOperationsPerKernel = Unset /\ gigaflops = Unset
           /\ pc = "exited" => /\ exitCode = 2
                               /\ stderr = UsageError
                               /\ steps = <<"L23">>

C3_Witness ==
    /\ pc = "exited" /\ Unparseable(argv.time) /\ Parseable(argv.size)
    /\ exitCode = 2 /\ stderr = UsageError

\* C4 as stated: when --size is omitted the run ends non-zero with a usage
\* error and prints no line.
C4_Original ==
    (pc = "exited" /\ ~Given(argv.size))
        => /\ exitCode \notin {-1, 0}
           /\ stderr = UsageError
           /\ stdout = << >>

\* the run before this one
Before == prev[1]

\* two finished runs, the second with the same size as the first
SameSizePair == pc = "exited" /\ prev # << >> /\ argv.size = Before.argv.size
SameTimePair == pc = "exited" /\ prev # << >> /\ argv.time = Before.argv.time

\* t2 = k * t1 for a positive k
PositiveMultiple(t1, t2) ==
    \/ IsZero(t1) /\ IsZero(t2)
    \/ NonZero64(t1) /\ NonZero64(t2) /\ t1.neg = t2.neg

\* s2 = k * s1 for some k
Multiple(s1, s2) == Finite(s1) /\ Finite(s2) /\ (IsZero(s1) => IsZero(s2))

\* |p2 - p1 / k| <= 0.01 * (1 + 1 / k) for k = t2 / t1, in hundredths
TimeScaled2(h1, neg1, t1, h2, neg2, t2) ==
    BCmp(Dist(neg2, BMul(h2, OnScale(t2, t1)), neg1, BMul(h1, OnScale(t1, t2))),
         BAdd(OnScale(t1, t2), OnScale(t2, t1))) <= 0

\* |p2 - k^3 * p1| <= 0.01 * (1 + |k|^3) for k = s2 / s1, in hundredths
CubeScaled2(h1, neg1, s1, h2, neg2, s2) ==
    BCmp(Dist(neg2, BMul(h2, Cube(OnScale(s1, s2))),
              (neg1 # s1.neg) # s2.neg, BMul(h1, Cube(OnScale(s2, s1)))),
         BAdd(Cube(OnScale(s1, s2)), Cube(OnScale(s2, s1)))) <= 0

BothPrinted ==
    /\ PrintedDecimal(Before.stdout, Before.exitCode)
    /\ PrintedDecimal(stdout, exitCode)

TimeRelation ==
    TimeScaled2(PrintedHundredths(Before.stdout), PrintedNeg(Before.stdout),
                ValueOf(Before.argv.time),
                PrintedHundredths(stdout), PrintedNeg(stdout), ValueOf(argv.time))

SizeRelation ==
    CubeScaled2(PrintedHundredths(Before.stdout), PrintedNeg(Before.stdout),
                ValueOf(Before.argv.size),
                PrintedHundredths(stdout), PrintedNeg(stdout), ValueOf(argv.size))

\* C5 as amended: for size and timeNs in the domain and a positive k with
\* k * timeNs in the domain, both runs print a value and
\* computeFlops(size, k * timeNs) is within 0.01 * (1 + 1 / k) of
\* computeFlops(size, timeNs) / k.
C5_TimeScaling ==
    (/\ SameSizePair
     /\ ArgsInDomain(Before.argv) /\ ArgsInDomain(argv)
     /\ PositiveMultiple(ValueOf(Before.argv.time), ValueOf(argv.time)))
        => BothPrinted /\ TimeRelation

C5_Witness ==
    /\ SameSizePair /\ BothPrinted
    /\ Before.argv = TieExample
    /\ argv.time = <<<<"8", "0">>>>
    /\ stdout # Before.stdout

\* C5 as stated: for all size and timeNs and any positive k, both runs give
\* a value and the one for k * timeNs is the other divided by k, within the
\* rounding tolerance.
C5_Original ==
    (/\ SameSizePair
     /\ Parseable(argv.size)
     /\ Parseable(Before.argv.time) /\ Parseable(argv.time)
     /\ PositiveMultiple(ValueOf(Before.argv.time), ValueOf(argv.time)))
        => BothPrinted /\ TimeRelation

\* C6 as amended: for size and timeNs in the domain and a k with k * size in
\* the domain, both runs print a value and computeFlops(k * size, timeNs) is
\* within 0.01 * (1 + |k|^3) of k^3 * computeFlops(size, timeNs).
C6_CubicScaling ==
    (/\ SameTimePair
     /\ ArgsInDomain(Before.argv) /\ ArgsInDomain(argv)
     /\ Multiple(ValueOf(Before.argv.size), ValueOf(argv.size)))
        => BothPrinted /\ SizeRelation

C6_Witness ==
    /\ SameTimePair /\ BothPrinted
    /\ Before.argv = TieExample
    /\ argv.size = <<<<"1", "0", "0">>>>
    /\ stdout # Before.stdout

\* C6 as stated: for all size and timeNs and any k, both runs give a value
\* and the one for k * size is k^3 times the other, within the rounding
\* tolerance.
C6_Original ==
    (/\ SameTimePair
     /\ Parseable(argv.time)
     /\ Parseable(Before.argv.size) /\ Parseable(argv.size)
     /\ Multiple(ValueOf(Before.argv.size), ValueOf(argv.size)))
        => BothPrinted /\ SizeRelation

\* C7 as amended: a finite result below 2^53 in magnitude is printed, after
\* the label, as a decimal with one or two digits after the point, and with
\* two the last is not 0 (4.0 rather than 4.00).
C7_OneOrTwoDecimals ==
    (exitCode = 0 /\ Finite(gigaflops) /\ MagExp(gigaflops) <= MantBits)
        => /\ Len(stdout) = 1 /\ HasLabel(stdout[1])
           /\ IsFixed(Unsigned(Text(stdout[1])))
           /\ FracDigits(Unsigned(Text(stdout[1]))) \in {1, 2}
           /\ FracDigits(Unsigned(Text(stdout[1]))) = 2
                  => stdout[1][Len(stdout[1])] # "0"

C7_Witness ==
    /\ exitCode = 0 /\ argv = Example2
    /\ stdout = LineOf(<<"4", ".", "0">>)

\* C7 as stated: the value printed has exactly 2 digits after the decimal
\* point, never fewer.
C7_Original ==
    exitCode = 0
        => /\ Len(stdout) = 1 /\ HasLabel(stdout[1])
           /\ IsFixed(Unsigned(Text(stdout[1])))
           /\ FracDigits(Unsigned(Text(stdout[1]))) = 2

TimeIsZero(av) == Parseable(av.time) /\ IsZero(ValueOf(av.time))

\* C9 as amended: with timeNs 0 and a size given, no guard rejects the
\* input and the division by timeNs / 1e9 = 0 raises ZeroDivisionError at
\* line 19 (OverflowError at line 17 comes first when size^3 overflows):
\* traceback, exit status 1, nothing printed.
C9_ZeroTimeRaises ==
    (pc = "exited" /\ Parseable(argv.size) /\ TimeIsZero(argv))
        => /\ exitCode = 1
           /\ stdout = << >>
           /\ stderr.kind = "traceback"
           /\ \/ /\ stderr.exc = "ZeroDivisionError" /\ stderr.op = "/"
                 /\ stderr.line = "L19"
                 /\ steps = SubSeq(RunSteps, 1, 7)
              \/ /\ stderr.exc = "OverflowError" /\ stderr.line = "L17"
                 /\ ~CubeFits(ValueOf(argv.size))

C9_Witness ==
    /\ pc = "exited" /\ Parseable(argv.size) /\ TimeIsZero(argv)
    /\ stderr.exc = "ZeroDivisionError" /\ exitCode = 1

\* C9 as stated: with timeNs 0 the division yields an infinity that is
\* printed, and the run ends as a successful one with one output line.
C9_Original ==
    (pc = "exited" /\ Parseable(argv.size) /\ TimeIsZero(argv))
        => /\ exitCode = 0
           /\ Len(stdout) = 1
           /\ HasLabel(stdout[1])

Omitted(av) == ~Given(av.size) \/ ~Given(av.time)

\* the first operator applied to the placeholder raised TypeError
TypeErrorAtPlaceholder ==
    /\ exitCode = 1
    /\ stderr.kind = "traceback" /\ stderr.exc = "TypeError"
    /\ IF ~Given(argv.size)
       THEN stderr.op = "**" /\ stderr.line = "L17" /\ steps = SubSeq(RunSteps, 1, 5)
       ELSE stderr.op = "/" /\ stderr.line = "L19" /\ steps = SubSeq(RunSteps, 1, 7)

PlaceholderKept ==
    /\ ~Given(argv.size) => args.size = None
    /\ ~Given(argv.time) => args.time = None

\* C10 as amended: when an option is omitted and the other, if given, is a
\* number whose cube does not overflow, parsing succeeds with None for the
\* missing value, computeFlops is entered and the run ends with TypeError at
\* the first operator applied to None (** at line 17 for a missing size, /
\* at line 19 for a missing time); nothing is printed.
C10_TypeErrorOnNone ==
    (/\ Omitted(argv)
     /\ ~Unparseable(argv.size) /\ ~Unparseable(argv.time)
     /\ Given(argv.size) => CubeFits(ValueOf(argv.size)))
        => /\ stdout = << >>
           /\ pc # "L23" => PlaceholderKept
           /\ pc = "exited" => TypeErrorAtPlaceholder

C10_Witness ==
    /\ pc = "exited" /\ Given(argv.size) /\ ~Given(argv.time)
    /\ TypeErrorAtPlaceholder

\* C10 as stated: whenever an option is omitted, parsing succeeds and the
\* run ends with TypeError at the first operator applied to the placeholder,
\* before anything is printed.
C10_Original ==
    Omitted(argv)
        => /\ stdout = << >>
           /\ pc # "L23" => PlaceholderKept
           /\ pc = "exited" => TypeErrorAtPlaceholder

====
